---- MODULE Spec2Model ----
(***************************************************************************)
(* A model of thingy.c: a BLE GATT client that attaches to one Thingy      *)
(* sensor, subscribes to one notification characteristic and prints the    *)
(* decoded readings.  The file's own functions (client_create,             *)
(* client_destroy, ready_cb, cmd_register_notify, notify_cb, ...) are      *)
(* translated from the source.  The BlueZ shared library they call         *)
(* (bt_att, gatt_db, bt_gatt_client, mainloop) is not part of the source   *)
(* file; it is modelled from its interface contract as reference counted   *)
(* objects.                                                                *)
(***************************************************************************)
EXTENDS Integers, Sequences, FiniteSets, TLC

\* ------------------------------------------------------------------------
\* Bounds of the model
\* ------------------------------------------------------------------------

\* Longest notification payload the peer sends in the decode specification.
MaxLen == 6

\* ------------------------------------------------------------------------
\* Program constants
\* ------------------------------------------------------------------------

THINGY_SENSOR_TEMPERATURE == 0
THINGY_SENSOR_PRESSURE == 1
THINGY_SENSOR_HUMIDITY == 2
THINGY_SENSOR_GAS == 3

\* The value handles notify_cb compares against.
TempHandle == 31
PressureHandle == 34
HumidityHandle == 37
GasHandle == 40

Sensors == THINGY_SENSOR_TEMPERATURE .. THINGY_SENSOR_GAS

ChannelHandles == {TempHandle, PressureHandle, HumidityHandle, GasHandle}

\* Handles of the peer's attribute table that are none of the four.
UnboundHandles == {30, 42}

Handles == ChannelHandles \cup UnboundHandles

\* Representative byte values: both ends of the range and both sides of
\* the sign bit.
ByteVals == {0, 127, 128, 255}

\* Representative values of a byte read outside the delivered value.
StrayBytes == {0, 255}

\* ------------------------------------------------------------------------
\* 32-bit int arithmetic, as notify_cb's expressions use it
\* ------------------------------------------------------------------------

\* The model checker's integers are themselves 32 bits wide, so every int
\* of the program is an integer here and no intermediate value may leave
\* IntMin .. IntMax.
IntMax == 2147483647
IntMin == (-2147483647) - 1
HalfWord == 65536

RECURSIVE Pow2(_)
Pow2(n) == IF n = 0 THEN 1 ELSE 2 * Pow2(n - 1)

\* The two 16-bit halves of an int's two's complement bit pattern.
HiBits(x) == (x \div HalfWord) % HalfWord
LoBits(x) == x % HalfWord

\* The int whose bit pattern has the halves hi and lo.
FromBits(hi, lo) ==
    (IF hi >= HalfWord \div 2 THEN hi - HalfWord ELSE hi) * HalfWord + lo

RECURSIVE OrNat(_, _)
OrNat(a, b) ==
    IF a = 0 THEN b
    ELSE IF b = 0 THEN a
    ELSE (IF a % 2 = 1 \/ b % 2 = 1 THEN 1 ELSE 0)
         + 2 * OrNat(a \div 2, b \div 2)

\* a | b on ints.
BitOr(a, b) ==
    FromBits(OrNat(HiBits(a), HiBits(b)), OrNat(LoBits(a), LoBits(b)))

\* The low 32 bits of x * 2^n as an int, for 0 <= x and 8 <= n < 32.
ShlWrap(x, n) ==
    LET k == Pow2(32 - n)
        r == x % k
    IN  IF r >= k \div 2 THEN (r - k) * Pow2(n) ELSE r * Pow2(n)

\* (int)x << n for 0 <= x.  A result that does not fit an int is undefined
\* behaviour: the two's complement wrap, or any other int the build makes
\* of it.
ShlInt(x, n) ==
    IF x <= IntMax \div Pow2(n)
    THEN {x * Pow2(n)}
    ELSE {ShlWrap(x, n), IntMin, IntMax}

\* ------------------------------------------------------------------------
\* notify_cb: the value-delivery callback
\* ------------------------------------------------------------------------

\* value[i] of a buffer that holds `length` delivered bytes (i counts from
\* 0).  An index at or past `length` is a read outside the delivered value:
\* whatever byte lies there.
Rd(value, length, i) ==
    IF i < length THEN {value[i + 1]} ELSE StrayBytes

\* What one call prints: the line's kind, the numbers printed with %d, the
\* bytes printed with %02x, and the indices of value[] the call read.
Line(kind, vals, bytes, reads) ==
    [kind |-> kind, vals |-> vals, bytes |-> bytes, reads |-> reads]

TempOut(value, length) ==
    { Line("temp", <<b0, b1>>, <<>>, {0, 1}) :
        b0 \in Rd(value, length, 0), b1 \in Rd(value, length, 1) }

PressureHpa(b0, b1, b2, b3) ==
    { BitOr(BitOr(BitOr(s3, b2 * Pow2(16)), b1 * Pow2(8)), b0) :
        s3 \in ShlInt(b3, 24) }

PressureOut(value, length) ==
    UNION { { Line("pressure", <<hpa, b4>>, <<>>, 0 .. 4) :
                hpa \in PressureHpa(b0, b1, b2, b3) } :
            b0 \in Rd(value, length, 0), b1 \in Rd(value, length, 1),
            b2 \in Rd(value, length, 2), b3 \in Rd(value, length, 3),
            b4 \in Rd(value, length, 4) }

\* HumidityOut taking a second byte as the high half of the reading.
HumidityOut_TwoBytes(value, length) ==
    { Line("humidity", <<BitOr(b1 * Pow2(8), b0)>>, <<>>, {0, 1}) :
        b0 \in Rd(value, length, 0), b1 \in Rd(value, length, 1) }

HumidityOut(value, length) ==
    { Line("humidity", <<b0>>, <<>>, {0}) : b0 \in Rd(value, length, 0) }

\* GasOut reading each 16-bit field high byte first.
GasOut_BigEndian(value, length) ==
    { Line("gas",
           <<BitOr(b0 * Pow2(8), b1), BitOr(b2 * Pow2(8), b3)>>,
           <<>>, 0 .. 3) :
        b0 \in Rd(value, length, 0), b1 \in Rd(value, length, 1),
        b2 \in Rd(value, length, 2), b3 \in Rd(value, length, 3) }

GasOut(value, length) ==
    { Line("gas",
           <<BitOr(b1 * Pow2(8), b0), BitOr(b3 * Pow2(8), b2)>>,
           <<>>, 0 .. 3) :
        b0 \in Rd(value, length, 0), b1 \in Rd(value, length, 1),
        b2 \in Rd(value, length, 2), b3 \in Rd(value, length, 3) }

\* RawOut whose loop runs to i <= length.
RawOut_OneTooMany(value_handle, value, length) ==
    IF length = 0
    THEN {Line("raw", <<value_handle, 0>>, <<>>, {})}
    ELSE {Line("raw", <<value_handle, length>>,
               [i \in 1 .. (length + 1) |->
                    IF i <= length THEN value[i] ELSE b],
               0 .. length) : b \in StrayBytes}

\* The else branch: the handle, the byte count and the bytes in hex.
RawOut(value_handle, value, length) ==
    IF length = 0
    THEN {Line("raw", <<value_handle, 0>>, <<>>, {})}
    ELSE {Line("raw", <<value_handle, length>>,
               [i \in 1 .. length |-> value[i]], 0 .. (length - 1))}

\* The lines a call notify_cb(value_handle, value, length) can print.
NotifyOut(value_handle, value, length) ==
    IF value_handle = TempHandle THEN TempOut(value, length)
    ELSE IF value_handle = PressureHandle THEN PressureOut(value, length)
    ELSE IF value_handle = HumidityHandle THEN HumidityOut(value, length)
    ELSE IF value_handle = GasHandle THEN GasOut(value, length)
    ELSE RawOut(value_handle, value, length)

\* ------------------------------------------------------------------------
\* parse_args and strtol, as cmd_register_notify uses them
\* ------------------------------------------------------------------------

\* A C string is the sequence of its characters before the terminating NUL.
Delims == {" ", "\t"}

RECURSIVE Tokens(_, _)
\* strsep(&str, " \t") until it returns NULL: the fields between
\* delimiters, empty ones included.
Tokens(str, cur) ==
    IF str = <<>> THEN <<cur>>
    ELSE IF Head(str) \in Delims THEN <<cur>> \o Tokens(Tail(str), <<>>)
    ELSE Tokens(Tail(str), Append(cur, Head(str)))

RECURSIVE ParseLoop(_, _, _, _)
\* The for loop of parse_args over the remaining fields.
ParseLoop(toks, expected_argc, argv, argc) ==
    IF toks = <<>> THEN [ok |-> TRUE, argv |-> argv, argc |-> argc]
    ELSE IF Head(toks) = <<>>
         THEN ParseLoop(Tail(toks), expected_argc, argv, argc)
    ELSE IF argc + 1 > expected_argc
         THEN [ok |-> FALSE, argv |-> Append(argv, Head(toks)),
               argc |-> argc + 1]
    ELSE ParseLoop(Tail(toks), expected_argc, Append(argv, Head(toks)),
                   argc + 1)

parse_args(str, expected_argc) ==
    ParseLoop(Tokens(str, <<>>), expected_argc, <<>>, 0)

DigitVal(c) ==
    CASE c = "0" -> 0 [] c = "1" -> 1 [] c = "2" -> 2 [] c = "3" -> 3
      [] c = "4" -> 4 [] c = "5" -> 5 [] c = "6" -> 6 [] c = "7" -> 7
      [] c = "8" -> 8 [] c = "9" -> 9
      [] c \in {"a", "A"} -> 10 [] c \in {"b", "B"} -> 11
      [] c \in {"c", "C"} -> 12 [] c \in {"d", "D"} -> 13
      [] c \in {"e", "E"} -> 14 [] c \in {"f", "F"} -> 15
      [] OTHER -> 99

RECURSIVE Digits(_, _, _, _)
\* Consume digits of `base`; yields the value and the unparsed rest.
Digits(s, base, acc, any) ==
    IF s # <<>> /\ DigitVal(Head(s)) < base
    THEN Digits(Tail(s), base, acc * base + DigitVal(Head(s)), TRUE)
    ELSE [val |-> acc, rest |-> s, any |-> any]

\* strtol(s, &endptr, 0) on a string without sign or leading blanks: the
\* base follows the prefix (0x: 16, 0: 8, else 10); `rest` is *endptr on.
strtol0(s) ==
    IF Len(s) >= 3 /\ s[1] = "0" /\ s[2] \in {"x", "X"}
       /\ DigitVal(s[3]) < 16
    THEN Digits(SubSeq(s, 3, Len(s)), 16, 0, FALSE)
    ELSE IF s # <<>> /\ s[1] = "0" THEN Digits(s, 8, 0, FALSE)
    ELSE LET d == Digits(s, 10, 0, FALSE)
         IN  IF d.any THEN d ELSE [val |-> 0, rest |-> s, any |-> FALSE]

\* The assignment to uint16_t value_handle.
ToU16(x) == x % HalfWord

\* ------------------------------------------------------------------------
\* The resources of a session and the library calls on them
\* ------------------------------------------------------------------------

\* cli, att, db and gatt are what the pointers of struct client refer to:
\* "null", a "live" object or a "freed" one.  fd is the socket: "none",
\* "open" or "closed", and fdCloses counts close() on it.  rel is the
\* order in which things were released, calls the order of the release
\* calls the program itself made.
NoResources ==
    [fd |-> "none", cli |-> "null", att |-> "null", attRefs |-> 0,
     closeOnUnref |-> FALSE, disconnReg |-> FALSE, db |-> "null",
     dbRefs |-> 0, gatt |-> "null", gattRefs |-> 0, readyReg |-> FALSE,
     svcReg |-> FALSE, fdCloses |-> 0, rel |-> <<>>, calls |-> <<>>]

Called(w, name) == [w EXCEPT !.calls = Append(@, name)]

\* close(fd)
close_fd(w) ==
    [w EXCEPT !.fd = "closed", !.fdCloses = @ + 1, !.rel = Append(@, "fd")]

\* free(cli)
free_cli(w) ==
    [w EXCEPT !.cli = IF @ = "null" THEN "null" ELSE "freed",
              !.rel = IF w.cli = "null" THEN @ ELSE Append(@, "cli"),
              !.calls = Append(@, "free")]

\* bt_att_new(fd, false): a transport with one reference, or NULL.
bt_att_new(w, ok) ==
    IF ok THEN [w EXCEPT !.att = "live", !.attRefs = 1] ELSE w

\* bt_att_unref: NULL is ignored; the last reference frees the transport,
\* which closes the stream when close-on-unref was set.
AttDrop(w) ==
    IF w.att = "null" THEN w
    ELSE IF w.att = "live" /\ w.attRefs > 1
         THEN [w EXCEPT !.attRefs = @ - 1]
    ELSE LET f == [w EXCEPT !.att = "freed", !.attRefs = 0,
                            !.disconnReg = FALSE,
                            !.rel = Append(@, "att")]
         IN  IF w.closeOnUnref THEN close_fd(f) ELSE f

bt_att_unref(w) == AttDrop(Called(w, "bt_att_unref"))

bt_att_set_close_on_unref(w, ok) ==
    IF ok THEN [w EXCEPT !.closeOnUnref = TRUE] ELSE w

bt_att_register_disconnect(w, ok) ==
    IF ok THEN [w EXCEPT !.disconnReg = TRUE] ELSE w

\* gatt_db_new(): a database with one reference, or NULL.
gatt_db_new(w, ok) ==
    IF ok THEN [w EXCEPT !.db = "live", !.dbRefs = 1] ELSE w

DbDrop(w) ==
    IF w.db = "null" THEN w
    ELSE IF w.db = "live" /\ w.dbRefs > 1
         THEN [w EXCEPT !.dbRefs = @ - 1]
    ELSE [w EXCEPT !.db = "freed", !.dbRefs = 0, !.rel = Append(@, "db")]

gatt_db_unref(w) == DbDrop(Called(w, "gatt_db_unref"))

\* bt_gatt_client_new(db, att, mtu): a client with one reference that
\* holds a reference to the database and one to the transport, or NULL.
bt_gatt_client_new(w, ok) ==
    IF ok
    THEN [w EXCEPT !.gatt = "live", !.gattRefs = 1,
                   !.attRefs = @ + 1, !.dbRefs = @ + 1]
    ELSE w

\* bt_gatt_client_unref: the last reference frees the client, which gives
\* up its observers and its references to the database and the transport.
GattDrop(w) ==
    IF w.gatt = "null" THEN w
    ELSE IF w.gatt = "live" /\ w.gattRefs > 1
         THEN [w EXCEPT !.gattRefs = @ - 1]
    ELSE AttDrop(DbDrop(
            [w EXCEPT !.gatt = "freed", !.gattRefs = 0,
                      !.readyReg = FALSE, !.svcReg = FALSE,
                      !.rel = Append(@, "gatt")]))

bt_gatt_client_unref(w) == GattDrop(Called(w, "bt_gatt_client_unref"))

bt_gatt_client_ready_register(w, ok) ==
    IF ok THEN [w EXCEPT !.readyReg = TRUE] ELSE w

bt_gatt_client_set_service_changed(w, ok) ==
    IF ok THEN [w EXCEPT !.svcReg = TRUE] ELSE w

\* ------------------------------------------------------------------------
\* client_create and client_destroy
\* ------------------------------------------------------------------------

\* The calls of client_create that can fail: the allocation of the session
\* record and the setup steps a to f (f: the two observer registrations).
Steps == {"alloc", "a", "b", "c", "d", "e", "f_ready", "f_svc"}

Returned(ret, w) == [ret |-> ret, w |-> w]

\* client_create(fd, mtu) where the call named by `fail` fails ("none":
\* every call succeeds).  Yields the pointer returned and the resources.
client_create(w0, fail) ==
    IF fail = "alloc" THEN Returned("NULL", w0)
    ELSE
    LET w1 == bt_att_new([w0 EXCEPT !.cli = "live"], fail # "a") IN
    IF w1.att = "null"
    THEN Returned("NULL", free_cli(bt_att_unref(w1)))
    ELSE
    LET w2 == bt_att_set_close_on_unref(w1, fail # "b") IN
    IF fail = "b"
    THEN Returned("NULL", free_cli(bt_att_unref(w2)))
    ELSE
    LET w3 == bt_att_register_disconnect(w2, fail # "c") IN
    IF fail = "c"
    THEN Returned("NULL", free_cli(bt_att_unref(w3)))
    ELSE
    LET w4 == gatt_db_new(w3, fail # "d") IN
    IF w4.db = "null"
    THEN Returned("NULL", free_cli(bt_att_unref(w4)))
    ELSE
    LET w5 == bt_gatt_client_new(w4, fail # "e") IN
    IF w5.gatt = "null"
    THEN Returned("NULL", free_cli(bt_att_unref(gatt_db_unref(w5))))
    ELSE
    LET w6 == bt_gatt_client_ready_register(w5, fail # "f_ready")
        w7 == bt_gatt_client_set_service_changed(w6, fail # "f_svc")
    IN  Returned("cli", gatt_db_unref(w7))

\* client_destroy that also drops a database reference of its own.
client_destroy_AlsoDbUnref(w) ==
    free_cli(bt_att_unref(gatt_db_unref(bt_gatt_client_unref(w))))

\* client_destroy releasing the transport before the GATT client.
client_destroy_AttFirst(w) ==
    free_cli(bt_gatt_client_unref(bt_att_unref(w)))

\* client_destroy(cli)
client_destroy(w) ==
    free_cli(bt_att_unref(bt_gatt_client_unref(w)))

\* ------------------------------------------------------------------------
\* l2cap_le_att_connect
\* ------------------------------------------------------------------------

ConnectSteps == {"socket", "bind", "setsockopt", "connect"}

\* l2cap_le_att_connect where the system call named by `fail` fails: the
\* socket is closed again and -1 returned, or the connected socket returned.
l2cap_le_att_connect(w, fail) ==
    IF fail = "socket" THEN w
    ELSE IF fail \in ConnectSteps THEN close_fd([w EXCEPT !.fd = "open"])
    ELSE [w EXCEPT !.fd = "open"]

\* ------------------------------------------------------------------------
\* The callbacks of the session
\* ------------------------------------------------------------------------

\* What the callbacks read and write.  ready: bt_gatt_client_is_ready.
\* reqs: the value handles of the bt_gatt_client_register_notify calls
\* made, in order.  regs: the state of each registration the library
\* accepted.  log: the last message printed outside notify_cb.  out: the
\* last line notify_cb printed.  terminate: mainloop_quit was called.
\* dbRead: the state of cli->db at the last enumeration of it.
NoLine == Line("none", <<>>, <<>>, {})

NoSession ==
    [ready |-> FALSE, reqs |-> <<>>, regs |-> <<>>,
     log |-> <<"none">>, out |-> NoLine, terminate |-> FALSE,
     dbRead |-> "never"]

Logged(s, msg) == [s EXCEPT !.log = msg]

mainloop_quit(s) == [s EXCEPT !.terminate = TRUE]

\* register_notify_cb asking again for the handle the peer refused.
register_notify_cb_Retry(s, att_ecode) ==
    IF att_ecode # 0 /\ s.reqs # <<>>
    THEN [s EXCEPT !.reqs = Append(@, s.reqs[Len(s.reqs)]),
                   !.regs = Append(@, "pending")]
    ELSE s

\* register_notify_cb(att_ecode, user_data)
register_notify_cb(s, att_ecode) ==
    IF att_ecode # 0
    THEN Logged(s, <<"Failed to register notify handler - error code",
                     att_ecode>>)
    ELSE s

\* cmd_register_notify without the test for a zero handle.
cmd_register_notify_ZeroAccepted(s, cmd_str, idOk) ==
    IF ~ s.ready THEN Logged(s, <<"GATT client not initialized">>)
    ELSE
    LET p == parse_args(cmd_str, 1) IN
    IF ~ p.ok \/ p.argc # 1 THEN Logged(s, <<"parse error">>)
    ELSE
    LET t == strtol0(p.argv[1])
        value_handle == ToU16(t.val)
    IN  IF t.rest # <<>>
        THEN Logged(s, <<"Invalid value handle">>)
        ELSE LET r == [s EXCEPT !.reqs = Append(@, value_handle)]
             IN  IF idOk
                 THEN [r EXCEPT !.regs = Append(@, "pending")]
                 ELSE Logged(r, <<"Failed to register notify handler">>)

\* cmd_register_notify(cli, cmd_str); idOk: bt_gatt_client_register_notify
\* returns an identifier (or 0).
cmd_register_notify(s, cmd_str, idOk) ==
    IF ~ s.ready THEN Logged(s, <<"GATT client not initialized">>)
    ELSE
    LET p == parse_args(cmd_str, 1) IN
    IF ~ p.ok \/ p.argc # 1 THEN Logged(s, <<"parse error">>)
    ELSE
    LET t == strtol0(p.argv[1])
        value_handle == ToU16(t.val)
    IN  IF t.rest # <<>> \/ value_handle = 0
        THEN Logged(s, <<"Invalid value handle">>)
        ELSE LET r == [s EXCEPT !.reqs = Append(@, value_handle)]
             IN  IF idOk
                 THEN [r EXCEPT !.regs = Append(@, "pending")]
                 ELSE Logged(r, <<"Failed to register notify handler">>)

\* The strings of ready_cb.
temp_chrc_hnd == <<"0", "x", "0", "0", "1", "f">>
pressure_chrc_hnd == <<"0", "x", "0", "0", "2", "2">>
humidity_chrc_hnd == <<"0", "x", "0", "0", "2", "5">>
gas_chrc_hnd == <<"0", "x", "0", "0", "2", "8">>

\* ready_cb with the humidity and gas strings exchanged.
ready_cb_SwappedStrings(s, sensor, success, att_ecode, idOk) ==
    IF ~ success
    THEN Logged(s, <<"GATT discovery procedures failed - error code",
                     att_ecode>>)
    ELSE
    LET d == Logged(s, <<"GATT discovery procedures complete">>) IN
    IF sensor = THINGY_SENSOR_PRESSURE
    THEN cmd_register_notify(d, pressure_chrc_hnd, idOk)
    ELSE IF sensor = THINGY_SENSOR_HUMIDITY
    THEN cmd_register_notify(d, gas_chrc_hnd, idOk)
    ELSE IF sensor = THINGY_SENSOR_GAS
    THEN cmd_register_notify(d, humidity_chrc_hnd, idOk)
    ELSE cmd_register_notify(d, temp_chrc_hnd, idOk)

\* ready_cb that gives up the session when discovery failed.
ready_cb_QuitOnFailure(s, sensor, success, att_ecode, idOk) ==
    IF ~ success
    THEN mainloop_quit(
            Logged(s, <<"GATT discovery procedures failed - error code",
                        att_ecode>>))
    ELSE
    LET d == Logged(s, <<"GATT discovery procedures complete">>) IN
    IF sensor = THINGY_SENSOR_PRESSURE
    THEN cmd_register_notify(d, pressure_chrc_hnd, idOk)
    ELSE IF sensor = THINGY_SENSOR_HUMIDITY
    THEN cmd_register_notify(d, humidity_chrc_hnd, idOk)
    ELSE IF sensor = THINGY_SENSOR_GAS
    THEN cmd_register_notify(d, gas_chrc_hnd, idOk)
    ELSE cmd_register_notify(d, temp_chrc_hnd, idOk)

\* ready_cb(success, att_ecode, user_data) with the global thingy_sensor.
ready_cb(s, sensor, success, att_ecode, idOk) ==
    IF ~ success
    THEN Logged(s, <<"GATT discovery procedures failed - error code",
                     att_ecode>>)
    ELSE
    LET d == Logged(s, <<"GATT discovery procedures complete">>) IN
    IF sensor = THINGY_SENSOR_TEMPERATURE
    THEN cmd_register_notify(d, temp_chrc_hnd, idOk)
    ELSE IF sensor = THINGY_SENSOR_PRESSURE
    THEN cmd_register_notify(d, pressure_chrc_hnd, idOk)
    ELSE IF sensor = THINGY_SENSOR_HUMIDITY
    THEN cmd_register_notify(d, humidity_chrc_hnd, idOk)
    ELSE IF sensor = THINGY_SENSOR_GAS
    THEN cmd_register_notify(d, gas_chrc_hnd, idOk)
    ELSE cmd_register_notify(d, temp_chrc_hnd, idOk)

\* service_changed_cb that subscribes again to the handle last requested.
service_changed_cb_Resubscribe(s, w, start_handle, end_handle) ==
    [s EXCEPT !.log = <<"Service Changed handled", start_handle, end_handle>>,
              !.dbRead = w.db,
              !.reqs = IF @ = <<>> THEN @ ELSE Append(@, @[Len(@)]),
              !.regs = IF s.reqs = <<>> THEN @ ELSE Append(@, "pending")]

\* service_changed_cb(start_handle, end_handle, user_data): prints the range
\* and enumerates cli->db in it.
service_changed_cb(s, w, start_handle, end_handle) ==
    [s EXCEPT !.log = <<"Service Changed handled", start_handle, end_handle>>,
              !.dbRead = w.db]

\* att_disconnect_cb that only prints.
att_disconnect_cb_NoQuit(s, err) ==
    Logged(s, <<"Device disconnected", err>>)

\* att_disconnect_cb(err, user_data)
att_disconnect_cb(s, err) ==
    mainloop_quit(Logged(s, <<"Device disconnected", err>>))

\* signal_cb without the switch: every signal quits the loop.
signal_cb_AnySignal(s, signum) ==
    mainloop_quit(s)

\* signal_cb(signum, user_data)
signal_cb(s, signum) ==
    IF signum \in {"SIGINT", "SIGTERM"} THEN mainloop_quit(s) ELSE s

\* ------------------------------------------------------------------------
\* The process: main, the event loop and the peer
\* ------------------------------------------------------------------------

VARIABLES
    pc,             \* where main is: connect, create, create_failed, run, done
    exitStatus,     \* what main returned, "none" while it runs
    thingy_sensor,  \* the global set from the -s option
    w,              \* the resources
    cliRet,         \* what client_create returned to main
    failed,         \* the call that failed during setup, "none" if none did
    s,              \* the state the callbacks read and write
    readyFired,     \* "no", or how the ready event ended: "ok", "failed"
    disconnected,   \* the peer has disconnected
    cancels,        \* the cancellation events delivered so far
    lastNotify,     \* the notification notify_cb was last called with
    wire,           \* a notification in flight (decode specification)
    cmd             \* a subscribe command in flight (subscribe specification)

vars == <<pc, exitStatus, thingy_sensor, w, cliRet, failed, s, readyFired,
          disconnected, cancels, lastNotify, wire, cmd>>

NoNotify == [handle |-> 0, value |-> <<>>]

\* No command: cmd_register_notify is not about to be called.
NoCmd == [str |-> <<>>, idOk |-> FALSE]

\* All byte strings over B of length 0 .. n.
Values(B, n) == UNION {[1 .. k -> B] : k \in 0 .. n}

\* The byte strings of the documented examples.
ExampleValues ==
    {<<22, 5>>, <<16, 39, 0, 0, 3>>, <<45>>, <<232, 3, 44, 1>>}

DecodeValues == Values(ByteVals, MaxLen) \cup ExampleValues

\* The payloads of the session specification: one too short for every
\* channel but humidity, one long enough for all.
RunValues == {<<45>>, <<16, 39, 0, 0, 3>>}

\* Error codes of the peer, errno values of a disconnect, signal numbers
\* and handle ranges the peer reports changed.
ECodes == {0, 10}
Errnos == {0, 104}
Signals == {"SIGINT", "SIGTERM", "SIGUSR1"}
Ranges == {<<1, 65535>>, <<31, 40>>}

Init ==
    /\ pc = "connect"
    /\ exitStatus = "none"
    /\ thingy_sensor \in Sensors
    /\ w = NoResources
    /\ cliRet = "unset"
    /\ failed = "none"
    /\ s = NoSession
    /\ readyFired = "no"
    /\ disconnected = FALSE
    /\ cancels = {}
    /\ lastNotify = NoNotify
    /\ wire = NoNotify
    /\ cmd = NoCmd

\* main: fd = l2cap_le_att_connect(...); if (fd < 0) return EXIT_FAILURE;
MainConnect ==
    /\ pc = "connect"
    /\ \E fail \in ConnectSteps \cup {"none"} :
         /\ w' = l2cap_le_att_connect(w, fail)
         /\ pc' = IF fail = "none" THEN "create" ELSE "done"
         /\ exitStatus' = IF fail = "none" THEN "none" ELSE "EXIT_FAILURE"
    /\ UNCHANGED <<thingy_sensor, cliRet, failed, s, readyFired,
                   disconnected, cancels, lastNotify, wire, cmd>>

\* main: cli = client_create(fd, mtu);
MainCreate ==
    /\ pc = "create"
    /\ \E fail \in Steps \cup {"none"} :
         LET r == client_create(w, fail)
         IN  /\ w' = r.w
             /\ cliRet' = r.ret
             /\ failed' = fail
             /\ pc' = IF r.ret = "NULL" THEN "create_failed" ELSE "run"
    /\ UNCHANGED <<exitStatus, thingy_sensor, s, readyFired, disconnected,
                   cancels, lastNotify, wire, cmd>>

\* MainCreateFailed returning EXIT_SUCCESS.
MainCreateFailed_ExitSuccess ==
    /\ pc = "create_failed"
    /\ w' = close_fd(w)
    /\ pc' = "done"
    /\ exitStatus' = "EXIT_SUCCESS"
    /\ UNCHANGED <<thingy_sensor, cliRet, failed, s, readyFired,
                   disconnected, cancels, lastNotify, wire, cmd>>

\* main: if (!cli) { close(fd); return EXIT_FAILURE; }
MainCreateFailed ==
    /\ pc = "create_failed"
    /\ w' = close_fd(w)
    /\ pc' = "done"
    /\ exitStatus' = "EXIT_FAILURE"
    /\ UNCHANGED <<thingy_sensor, cliRet, failed, s, readyFired,
                   disconnected, cancels, lastNotify, wire, cmd>>

\* mainloop_run dispatches one event at a time until mainloop_quit.
Running == pc = "run" /\ ~ s.terminate

\* Discovery ends: the client becomes ready (or not) and ready_cb runs.
Ready ==
    /\ Running /\ ~ disconnected
    /\ w.readyReg /\ readyFired = "no"
    /\ \E success \in BOOLEAN, att_ecode \in ECodes, idOk \in BOOLEAN :
         /\ success = (att_ecode = 0)
         /\ s' = ready_cb([s EXCEPT !.ready = success], thingy_sensor,
                          success, att_ecode, idOk)
         /\ readyFired' = IF success THEN "ok" ELSE "failed"
    /\ UNCHANGED <<pc, exitStatus, thingy_sensor, w, cliRet, failed,
                   disconnected, cancels, lastNotify, wire, cmd>>

\* The peer answers a registration: register_notify_cb runs.
RegisterResult ==
    /\ Running /\ ~ disconnected
    /\ \E i \in DOMAIN s.regs, att_ecode \in ECodes :
         /\ s.regs[i] = "pending"
         /\ s' = register_notify_cb(
                   [s EXCEPT !.regs[i] =
                        IF att_ecode = 0 THEN "active" ELSE "failed"],
                   att_ecode)
    /\ UNCHANGED <<pc, exitStatus, thingy_sensor, w, cliRet, failed,
                   readyFired, disconnected, cancels, lastNotify, wire, cmd>>

\* notify_cb runs on a notification (value_handle, value).
NotifyCb(value_handle, value) ==
    /\ \E o \in NotifyOut(value_handle, value, Len(value)) :
         s' = [s EXCEPT !.out = o]
    /\ lastNotify' = [handle |-> value_handle, value |-> value]

\* The peer notifies while a registration is active.
Notify ==
    /\ Running /\ ~ disconnected
    /\ \E i \in DOMAIN s.regs : s.regs[i] = "active"
    /\ \E value_handle \in Handles, value \in RunValues :
         NotifyCb(value_handle, value)
    /\ UNCHANGED <<pc, exitStatus, thingy_sensor, w, cliRet, failed,
                   readyFired, disconnected, cancels, wire, cmd>>

\* The peer reports a changed handle range: service_changed_cb runs.
ServiceChanged ==
    /\ Running /\ ~ disconnected
    /\ w.svcReg /\ s.ready
    /\ \E r \in Ranges : s' = service_changed_cb(s, w, r[1], r[2])
    /\ UNCHANGED <<pc, exitStatus, thingy_sensor, w, cliRet, failed,
                   readyFired, disconnected, cancels, lastNotify, wire, cmd>>

\* The link drops: att_disconnect_cb runs.
Disconnect ==
    /\ Running /\ ~ disconnected
    /\ w.disconnReg
    /\ \E err \in Errnos : s' = att_disconnect_cb(s, err)
    /\ disconnected' = TRUE
    /\ cancels' = cancels \cup {"disconnect"}
    /\ UNCHANGED <<pc, exitStatus, thingy_sensor, w, cliRet, failed,
                   readyFired, lastNotify, wire, cmd>>

\* A signal arrives: signal_cb runs.
Signal ==
    /\ Running
    /\ \E signum \in Signals :
         /\ s' = signal_cb(s, signum)
         /\ cancels' = IF signum \in {"SIGINT", "SIGTERM"}
                       THEN cancels \cup {signum} ELSE cancels
    /\ UNCHANGED <<pc, exitStatus, thingy_sensor, w, cliRet, failed,
                   readyFired, disconnected, lastNotify, wire, cmd>>

\* main: mainloop_run() returned; client_destroy(cli); return EXIT_SUCCESS;
MainShutdown ==
    /\ pc = "run" /\ s.terminate
    /\ w' = client_destroy(w)
    /\ pc' = "done"
    /\ exitStatus' = "EXIT_SUCCESS"
    /\ UNCHANGED <<thingy_sensor, cliRet, failed, s, readyFired,
                   disconnected, cancels, lastNotify, wire, cmd>>

Next ==
    \/ MainConnect
    \/ MainCreate
    \/ MainCreateFailed
    \/ Ready
    \/ RegisterResult
    \/ Notify
    \/ ServiceChanged
    \/ Disconnect
    \/ Signal
    \/ MainShutdown

Spec == Init /\ [][Next]_vars

\* main runs on and the loop returns once mainloop_quit was called.
FairSpec ==
    Spec /\ WF_vars(MainCreateFailed) /\ WF_vars(MainShutdown)

\* ------------------------------------------------------------------------
\* The decode specification: one notification through notify_cb
\* ------------------------------------------------------------------------

\* A session that was set up, found ready and whose registration the peer
\* confirmed.
SubscribedSession(sensor) ==
    LET r == ready_cb([NoSession EXCEPT !.ready = TRUE], sensor, TRUE, 0,
                      TRUE)
    IN  [r EXCEPT !.regs = [i \in DOMAIN r.regs |-> "active"]]

DecodeInit ==
    /\ pc = "run"
    /\ exitStatus = "none"
    /\ thingy_sensor \in Sensors
    /\ w = client_create(l2cap_le_att_connect(NoResources, "none"),
                         "none").w
    /\ cliRet = "cli"
    /\ failed = "none"
    /\ s = SubscribedSession(thingy_sensor)
    /\ readyFired = "ok"
    /\ disconnected = FALSE
    /\ cancels = {}
    /\ lastNotify = NoNotify
    /\ wire \in [handle : Handles, value : DecodeValues]
    /\ cmd = NoCmd

\* The notification in flight is delivered.
Deliver ==
    /\ Running /\ ~ disconnected
    /\ wire # NoNotify
    /\ \E i \in DOMAIN s.regs : s.regs[i] = "active"
    /\ NotifyCb(wire.handle, wire.value)
    /\ wire' = NoNotify
    /\ UNCHANGED <<pc, exitStatus, thingy_sensor, w, cliRet, failed,
                   readyFired, disconnected, cancels, cmd>>

DecodeNext == Deliver

DecodeSpec == DecodeInit /\ [][DecodeNext]_vars

\* ------------------------------------------------------------------------
\* The subscribe specification: one command through cmd_register_notify
\* ------------------------------------------------------------------------

\* Command strings: the four of ready_cb; other spellings of a handle
\* (decimal, octal, surrounded by blanks, one that wraps in uint16_t to
\* 0x001f); spellings of zero (the last wraps to it); and strings that are
\* no single number.
CmdStrs ==
    { temp_chrc_hnd, pressure_chrc_hnd, humidity_chrc_hnd, gas_chrc_hnd,
      <<"4", "0">>, <<"0", "3", "7">>, <<" ", "4", "2", "\t">>,
      <<"6", "5", "5", "6", "7">>,
      <<"0">>, <<"0", "x", "0">>, <<"0", "0">>,
      <<"6", "5", "5", "3", "6">>,
      <<" ">>, <<"3", "1", " ", "4", "0">>, <<"0", "x", "1", "g">>,
      <<"z", "z">> }

\* A created session in which cmd_register_notify is about to be called:
\* before discovery has ended, when it has just ended, or with the
\* channel's registration already made.
SubscribeInit ==
    /\ pc = "run"
    /\ exitStatus = "none"
    /\ thingy_sensor \in Sensors
    /\ w = client_create(l2cap_le_att_connect(NoResources, "none"),
                         "none").w
    /\ cliRet = "cli"
    /\ failed = "none"
    /\ \E ready \in BOOLEAN :
         /\ s \in IF ready
                  THEN {[NoSession EXCEPT !.ready = TRUE],
                        SubscribedSession(thingy_sensor)}
                  ELSE {NoSession}
         /\ readyFired = IF ready THEN "ok" ELSE "no"
    /\ disconnected = FALSE
    /\ cancels = {}
    /\ lastNotify = NoNotify
    /\ wire = NoNotify
    /\ cmd \in [str : CmdStrs, idOk : BOOLEAN]

\* cmd_register_notify runs on the command.
Subscribe ==
    /\ Running /\ ~ disconnected
    /\ cmd # NoCmd
    /\ s' = cmd_register_notify(s, cmd.str, cmd.idOk)
    /\ cmd' = NoCmd
    /\ UNCHANGED <<pc, exitStatus, thingy_sensor, w, cliRet, failed,
                   readyFired, disconnected, cancels, lastNotify, wire>>

SubscribeNext == Subscribe

SubscribeSpec == SubscribeInit /\ [][SubscribeNext]_vars

\* ------------------------------------------------------------------------
\* The properties
\* ------------------------------------------------------------------------

\* C1: across the whole run (client_create, then main's failure handling
\* or client_destroy) the socket is closed exactly once: never twice, and
\* once when the process has ended.
C1_FdClosedExactlyOnce ==
    /\ w.fdCloses <= 1
    /\ (pc = "done" /\ cliRet # "unset") => w.fdCloses = 1

\* C2: when one of the setup calls of client_create fails, client_create
\* returns NULL and the session record, the transport, the database and the
\* GATT client that the earlier calls acquired are released.
C2_SetupAtomicity ==
    (failed # "none") =>
        /\ cliRet = "NULL"
        /\ w.cli # "live" /\ w.att # "live"
        /\ w.db # "live" /\ w.gatt # "live"

\* The minimum payload length the documentation gives for a channel.
MinLength(handle) ==
    CASE handle = 31 -> 2
      [] handle = 34 -> 5
      [] handle = 37 -> 1
      [] handle = 40 -> 4
      [] OTHER -> 0

Delivered == s.out # NoLine

\* C3: a notification on a channel's handle that is shorter than the
\* channel's minimum length yields a Malformed error and no reading, and
\* notify_cb reads no byte at an index at or past the delivered length.
C3_ShortBufferRejected ==
    Delivered =>
        /\ \A i \in s.out.reads : i < Len(lastNotify.value)
        /\ (Len(lastNotify.value) < MinLength(lastNotify.handle))
              => s.out.kind = "malformed"

\* C4: at most one notification registration is requested per session:
\* exactly one once the ready event reported success, none otherwise, and
\* no later event (a refused or failed registration, a service change)
\* adds another.
C4_SingleSubscription ==
    Len(s.reqs) = IF readyFired = "ok" THEN 1 ELSE 0

\* The peer refused the one registration and a service change followed.
C4_Witness ==
    /\ Len(s.reqs) = 1
    /\ s.regs = <<"failed">>
    /\ s.log[1] = "Service Changed handled"

\* The handle the documentation gives for a sensor channel.
ChannelHandle(sensor) ==
    CASE sensor = 0 -> 31
      [] sensor = 1 -> 34
      [] sensor = 2 -> 37
      [] sensor = 3 -> 40

\* C5: every notification registration requested carries the handle of the
\* configured channel: Temperature 0x001F, Pressure 0x0022, Humidity
\* 0x0025, Gas 0x0028.
C5_ChannelToHandle ==
    \A i \in DOMAIN s.reqs : s.reqs[i] = ChannelHandle(thingy_sensor)

\* A registration for the gas channel was requested.
C5_Witness ==
    /\ thingy_sensor = THINGY_SENSOR_GAS
    /\ s.reqs = <<40>>

TornDown ==
    /\ pc = "done" /\ exitStatus = "EXIT_SUCCESS"
    /\ w.gatt = "freed" /\ w.att = "freed"

\* C6: a disconnect or a SIGINT/SIGTERM delivered to a running session
\* signals the loop to stop; from then on the session eventually is torn
\* down, the GATT client and the transport released; and once torn down
\* nothing more happens (no event is handled, no reconnect).
C6_CancellationLeadsToTeardown ==
    /\ [][cancels' # cancels => s'.terminate]_vars
    /\ (cancels # {}) ~> TornDown
    /\ [][~ TornDown]_vars

\* The session was torn down after the peer disconnected.
C6_Witness ==
    TornDown /\ "disconnect" \in cancels

\* C7: the loop is signalled to stop only when a disconnect or a
\* SIGINT/SIGTERM was delivered, and while the loop runs no event (a failed
\* discovery, a refused registration, a malformed or unexpected
\* notification, a service change, another signal) releases a resource of
\* the session.
C7_OnlyCancellationStops ==
    /\ s.terminate => cancels # {}
    /\ (pc = "done" /\ cliRet = "cli") => cancels # {}
    /\ pc = "run" =>
          /\ w.rel = <<>>
          /\ w.fd = "open" /\ w.cli = "live" /\ w.att = "live"
          /\ w.gatt = "live" /\ w.db = "live"

\* A one-byte notification on the pressure handle was handled after a
\* service change, and the session runs on.
C7_Witness ==
    /\ pc = "run" /\ ~ s.terminate
    /\ lastNotify.handle = PressureHandle /\ Len(lastNotify.value) = 1
    /\ s.out.kind = "pressure"
    /\ s.log[1] = "Service Changed handled"

RECURSIVE Count(_, _)
Count(x, seq) ==
    IF seq = <<>> THEN 0
    ELSE (IF Head(seq) = x THEN 1 ELSE 0) + Count(x, Tail(seq))

\* C8: after a successful client_create, client_destroy releases the GATT
\* client first and the transport second, and each resource is released
\* exactly once, whether a disconnect or a signal ended the loop.
C8_TeardownOrderOnce ==
    cliRet = "cli" =>
        /\ \A r \in {"gatt", "db", "att", "fd", "cli"} : Count(r, w.rel) <= 1
        /\ pc = "done" =>
              /\ w.calls = <<"gatt_db_unref", "bt_gatt_client_unref",
                             "bt_att_unref", "free">>
              /\ \A r \in {"gatt", "db", "att", "fd", "cli"} :
                    Count(r, w.rel) = 1

\* client_destroy ran after a disconnect.
C8_Witness ==
    /\ pc = "done" /\ cliRet = "cli"
    /\ cancels = {"disconnect"}

\* C9: for a pressure payload of five bytes or more the integer part
\* printed is b0 + 256*b1 + 65536*b2 + 16777216*b3 as an unsigned 32-bit
\* value (stated on its two 16-bit halves), and the fraction is b4.
C9_PressureUnsigned ==
    (Delivered /\ lastNotify.handle = 34 /\ Len(lastNotify.value) >= 5) =>
        LET v == lastNotify.value
        IN  /\ s.out.kind = "pressure"
            /\ s.out.vals[1] \div 65536 = v[3] + 256 * v[4]
            /\ s.out.vals[1] % 65536 = v[1] + 256 * v[2]
            /\ s.out.vals[2] = v[5]

\* C10: for a payload of at least the channel's minimum length,
\* Temperature prints (b0, b1), Humidity prints b0 and Gas prints
\* (b0 + 256*b1, b2 + 256*b3).
C10_DecodeCorrect ==
    LET v == lastNotify.value
        h == lastNotify.handle
    IN  Delivered =>
          /\ (h = 31 /\ Len(v) >= 2) =>
                s.out.kind = "temp" /\ s.out.vals = <<v[1], v[2]>>
          /\ (h = 37 /\ Len(v) >= 1) =>
                s.out.kind = "humidity" /\ s.out.vals = <<v[1]>>
          /\ (h = 40 /\ Len(v) >= 4) =>
                /\ s.out.kind = "gas"
                /\ s.out.vals = <<v[1] + 256 * v[2], v[3] + 256 * v[4]>>

\* The documented gas example: E8 03 2C 01 gives eCO2 1000 and TVOC 300.
C10_Witness ==
    /\ lastNotify = [handle |-> 40, value |-> <<232, 3, 44, 1>>]
    /\ s.out.kind = "gas" /\ s.out.vals = <<1000, 300>>

\* Everything client_create acquired is still held.
SessionHeld ==
    /\ w.rel = <<>>
    /\ w.fd = "open" /\ w.cli = "live" /\ w.att = "live"
    /\ w.gatt = "live" /\ w.db = "live"

\* C11: when the ready event reports failure, ready_cb prints the error
\* code and does nothing else: no registration is requested then or later,
\* the loop is not signalled to stop, nothing is released, and the session
\* stays open until a disconnect or a signal.
C11_DiscoveryFailureInert ==
    /\ [](readyFired = "failed" =>
            /\ s.reqs = <<>> /\ s.regs = <<>>
            /\ pc = "run" => SessionHeld
            /\ cancels = {} => (pc = "run" /\ ~ s.terminate))
    /\ [][(readyFired = "no" /\ readyFired' = "failed") =>
            /\ s'.log[1] = "GATT discovery procedures failed - error code"
            /\ s'.log[2] # 0
            /\ s'.terminate = s.terminate
            /\ w' = w /\ pc' = pc]_vars

\* Discovery failed with error code 0x0a and the session is still open.
C11_Witness ==
    /\ readyFired = "failed"
    /\ pc = "run" /\ ~ s.terminate
    /\ s.log = <<"GATT discovery procedures failed - error code", 10>>
    /\ SessionHeld

\* C12: handling a service change prints the range and enumerates the
\* database, and nothing else: no registration is requested, and the
\* registrations, the readiness, the loop's stop flag, the last reading and
\* every resource stay as they were.
C12_ServiceChangedFrame ==
    [][ServiceChanged =>
         /\ s'.reqs = s.reqs /\ s'.regs = s.regs
         /\ s'.ready = s.ready /\ s'.terminate = s.terminate
         /\ s'.out = s.out
         /\ w' = w /\ pc' = pc
         /\ s'.log[1] = "Service Changed handled"
         /\ s'.dbRead = w.db]_vars

\* A service change was handled while the registration was active.
C12_Witness ==
    /\ s.log = <<"Service Changed handled", 31, 40>>
    /\ s.regs = <<"active">>
    /\ s.dbRead = "live"

\* C13: a notification on a handle that is none of the four channel
\* handles is not decoded: notify_cb prints one raw line with the handle,
\* the byte count and exactly the delivered bytes (none for length 0),
\* reads no byte at or past the length, and the session runs on.
C13_UnboundHandleRaw ==
    (Delivered /\ lastNotify.handle \notin {31, 34, 37, 40}) =>
        LET v == lastNotify.value
        IN  /\ s.out.kind = "raw"
            /\ s.out.vals = <<lastNotify.handle, Len(v)>>
            /\ s.out.bytes = v
            /\ \A i \in s.out.reads : i < Len(v)
            /\ pc = "run" /\ ~ s.terminate

\* Two bytes arrived on handle 0x2a and were printed raw.
C13_Witness ==
    /\ lastNotify = [handle |-> 42, value |-> <<127, 128>>]
    /\ s.out = Line("raw", <<42, 2>>, <<127, 128>>, {0, 1})

\* C14: for each of the four channels, a buffer longer than the channel's
\* minimum length decodes to the reading of its minimum-length prefix:
\* notify_cb reads only the indices below the minimum, the line printed is
\* one the prefix alone produces, and the buffer and its prefix have the
\* same possible lines.
C14_ExcessBytesIgnored ==
    (Delivered /\ lastNotify.handle \in {31, 34, 37, 40}
               /\ Len(lastNotify.value) > MinLength(lastNotify.handle)) =>
        LET h == lastNotify.handle
            v == lastNotify.value
            n == MinLength(h)
            prefix == SubSeq(v, 1, n)
        IN  /\ s.out.reads = 0 .. (n - 1)
            /\ s.out \in NotifyOut(h, prefix, n)
            /\ NotifyOut(h, v, Len(v)) = NotifyOut(h, prefix, n)

\* The pressure example followed by a sixth byte decodes as the example.
C14_Witness ==
    /\ lastNotify.handle = 34
    /\ Len(lastNotify.value) = 6
    /\ lastNotify.value[6] = 255
    /\ lastNotify.value[4] = 0
    /\ s.out.kind = "pressure"
    /\ s.out.vals[2] = lastNotify.value[5]

\* C15: main returns only at its end, and returns EXIT_FAILURE exactly
\* when l2cap_le_att_connect failed (client_create was never called) or
\* client_create returned NULL; every run in which client_create returned
\* a session returns EXIT_SUCCESS, after a disconnect or SIGINT/SIGTERM
\* stopped the loop and client_destroy released the session, whatever
\* discovery, the registration or a decode did meanwhile.
C15_ExitStatus ==
    /\ (pc = "done") <=> (exitStatus # "none")
    /\ pc = "done" =>
         /\ exitStatus \in {"EXIT_SUCCESS", "EXIT_FAILURE"}
         /\ (exitStatus = "EXIT_FAILURE") <=> (cliRet \in {"unset", "NULL"})
         /\ cliRet = "unset" => w.fd # "open"
         /\ cliRet = "cli" =>
              /\ exitStatus = "EXIT_SUCCESS"
              /\ cancels # {}
              /\ w.gatt = "freed" /\ w.att = "freed" /\ w.cli = "freed"

\* Discovery failed, the link dropped, and main still returned success.
C15_Witness ==
    /\ pc = "done" /\ exitStatus = "EXIT_SUCCESS"
    /\ readyFired = "failed"
    /\ cancels = {"disconnect"}

\* C16: the decoder applied to a notification is the one bound to the
\* subscribed handle: a notification on a handle for which the session
\* requested no registration (the handle of another channel included) is
\* printed as raw bytes, never as a reading.
C16_DecoderBoundToSubscription ==
    (Delivered /\ \A i \in DOMAIN s.reqs : s.reqs[i] # lastNotify.handle)
        => s.out.kind = "raw"

\* C17: the attribute database's reference count is never negative and the
\* database is never released twice; once main has ended, a database that
\* was allocated has been released exactly once (by client_create when the
\* GATT client could not be built, by client_destroy otherwise); while the
\* created session runs exactly one reference remains, the GATT client's;
\* and service_changed_cb never reads a released database.
C17_DatabaseOwnership ==
    /\ w.dbRefs >= 0
    /\ Count("db", w.rel) <= 1
    /\ w.db = "freed" <=> Count("db", w.rel) = 1
    /\ (pc \in {"create_failed", "done"} /\ w.db # "null")
          => (Count("db", w.rel) = 1 /\ w.dbRefs = 0)
    /\ (pc = "run" /\ cliRet = "cli")
          => (w.db = "live" /\ w.dbRefs = 1 /\ w.gatt = "live")
    /\ s.dbRead \in {"never", "live"}

\* A service change was handled on the live database, and the teardown
\* then released the database once.
C17_Witness ==
    /\ pc = "done" /\ cliRet = "cli"
    /\ s.dbRead = "live"
    /\ w.db = "freed" /\ Count("db", w.rel) = 1

\* The command strings that spell handle zero, and the handle the strings
\* spelling another handle stand for.
ZeroHandleStrs ==
    {<<"0">>, <<"0", "x", "0">>, <<"0", "0">>, <<"6", "5", "5", "3", "6">>}

HandleStrs ==
    { <<temp_chrc_hnd, 31>>, <<pressure_chrc_hnd, 34>>,
      <<humidity_chrc_hnd, 37>>, <<gas_chrc_hnd, 40>>,
      <<(<<"4", "0">>), 40>>, <<(<<"0", "3", "7">>), 31>>,
      <<(<<" ", "4", "2", "\t">>), 42>>,
      <<(<<"6", "5", "5", "6", "7">>), 31>> }

\* C18: cmd_register_notify asks the GATT client for a registration only
\* when the client is ready and the handle is not zero (and does ask for
\* each spelling of a non-zero handle); with a client that is not ready or
\* with handle zero it prints the failure, asks for nothing and leaves the
\* session as it was; when the library returns identifier 0 it prints the
\* failure, records no registration and the session runs on.
C18_SubscribePreconditions ==
    [][(cmd # NoCmd /\ cmd' = NoCmd) =>
         LET issued == Len(s'.reqs) = Len(s.reqs) + 1
             asked == s'.reqs[Len(s'.reqs)]
         IN  /\ s'.reqs = s.reqs \/ (issued /\ s'.reqs = Append(s.reqs, asked))
             /\ issued => (s.ready /\ asked \in 1 .. 65535)
             /\ ~ s.ready =>
                  s' = Logged(s, <<"GATT client not initialized">>)
             /\ (s.ready /\ cmd.str \in ZeroHandleStrs) =>
                  s' = Logged(s, <<"Invalid value handle">>)
             /\ \A h \in HandleStrs :
                  (s.ready /\ cmd.str = h[1]) => (issued /\ asked = h[2])
             /\ (issued /\ ~ cmd.idOk) =>
                  /\ s'.log = <<"Failed to register notify handler">>
                  /\ s'.regs = s.regs
                  /\ s'.terminate = s.terminate
             /\ (issued /\ cmd.idOk) => s'.regs = Append(s.regs, "pending")
             /\ ~ issued => s'.regs = s.regs
             /\ w' = w /\ pc' = pc /\ pc = "run"]_vars

\* The library returned identifier 0 for handle 0x001f: the failure was
\* printed, no registration is recorded and the session still runs.
C18_Witness ==
    /\ cmd = NoCmd
    /\ s.reqs = <<31>> /\ s.regs = <<>>
    /\ s.log = <<"Failed to register notify handler">>
    /\ pc = "run" /\ ~ s.terminate

====
